---- MODULE Spec2Model ----
(***************************************************************************)
(* Model of pg_unique_slug.c: gen_unique_slug(len) reads the realtime      *)
(* clock, converts the reading to a 64-bit count of the unit selected by   *)
(* len, formats it as a zero-padded decimal string, and replaces every     *)
(* digit by a letter drawn at random from the bucket of that digit, with a *)
(* hyphen at the midpoint.                                                 *)
(*                                                                         *)
(* A uint64 is a sequence of LIMBS base-BASE limbs, least significant      *)
(* first, so that the arithmetic keeps the width of the C type.            *)
(* Characters are one-character strings; NUL is the C string terminator    *)
(* and UNINIT is the content of a cell no statement has written.           *)
(***************************************************************************)
EXTENDS Integers, Sequences, FiniteSets, TLC

\* ------------------------------------------------------------------------
\* Bounds of the model
\* ------------------------------------------------------------------------

\* The clock readings explored are the first MaxClock entries of ClockTable.
MaxClock == 7

\* ------------------------------------------------------------------------
\* 64-bit unsigned arithmetic (uint64)
\* ------------------------------------------------------------------------

LIMBS == 8
BASE == 256

U64Zero == <<0, 0, 0, 0, 0, 0, 0, 0>>

\* The conversion of a non-negative C integer below 2^31 to uint64.
U64FromInt(n) ==
    <<n % BASE, (n \div BASE) % BASE, (n \div (BASE * BASE)) % BASE,
      (n \div (BASE * BASE * BASE)) % BASE, 0, 0, 0, 0>>

RECURSIVE AddLimbs(_, _, _, _)
AddLimbs(a, b, k, carry) ==
    IF k > LIMBS THEN <<>>
    ELSE LET s == a[k] + b[k] + carry
         IN  <<s % BASE>> \o AddLimbs(a, b, k + 1, s \div BASE)

\* a + b in uint64: the carry out of the top limb is lost.
U64Add(a, b) == AddLimbs(a, b, 1, 0)

RECURSIVE MulLimb(_, _, _, _)
MulLimb(a, m, k, carry) ==
    IF k > LIMBS THEN <<>>
    ELSE LET s == a[k] * m + carry
         IN  <<s % BASE>> \o MulLimb(a, m, k + 1, s \div BASE)

\* a * BASE^n in uint64.
ShiftLimbs(a, n) == SubSeq(U64Zero, 1, n) \o SubSeq(a, 1, LIMBS - n)

RECURSIVE MulAcc(_, _, _)
MulAcc(a, b, j) ==
    IF j > LIMBS THEN U64Zero
    ELSE U64Add(ShiftLimbs(MulLimb(a, b[j], 1, 0), j - 1), MulAcc(a, b, j + 1))

\* a * b in uint64: the product modulo 2^64.
U64Mul(a, b) == MulAcc(a, b, 1)

RECURSIVE DivLimbs(_, _, _, _)
DivLimbs(a, d, k, rem) ==
    IF k < 1 THEN [q |-> <<>>, r |-> rem]
    ELSE LET cur  == rem * BASE + a[k]
             rest == DivLimbs(a, d, k - 1, cur % d)
         IN  [q |-> rest.q \o <<cur \div d>>, r |-> rest.r]

\* The decimal digits (values 0..9, most significant first) of a uint64,
\* as the conversion %llu produces them: no leading zero, at least one digit.
RECURSIVE DecimalOf(_)
DecimalOf(a) ==
    LET d == DivLimbs(a, 10, LIMBS, 0)
    IN  IF d.q = U64Zero THEN <<d.r>> ELSE DecimalOf(d.q) \o <<d.r>>

\* The uint64 whose decimal digits are ds (the machine form of a number the
\* model writes in decimal), by Horner's rule from the leading digit.
RECURSIVE Horner(_, _, _)
Horner(ds, k, acc) ==
    IF Len(acc) = LIMBS /\ k > Len(ds) THEN acc
    ELSE Horner(ds, k + 1, U64Add(U64Mul(acc, U64FromInt(10)), U64FromInt(ds[k])))

U64OfDecimal(ds) == Horner(ds, 1, U64Zero)

\* ------------------------------------------------------------------------
\* Characters and C strings
\* ------------------------------------------------------------------------

NUL == "NUL"
UNINIT == "?"

DigitChars == <<"0", "1", "2", "3", "4", "5", "6", "7", "8", "9">>

\* The character code of c, for the characters a digit buffer can hold.
Ord(c) ==
    IF c = NUL THEN 0
    ELSE IF \E d \in 1..10 : DigitChars[d] = c
         THEN 47 + (CHOOSE d \in 1..10 : DigitChars[d] = c)
         ELSE 63

\* strlen: the number of cells before the first NUL of the buffer.
strlen(buf) ==
    IF \E k \in 1..Len(buf) : buf[k] = NUL
    THEN (CHOOSE k \in 1..Len(buf) :
              buf[k] = NUL /\ \A j \in 1..(k - 1) : buf[j] # NUL) - 1
    ELSE Len(buf)

\* Faulty variant of cstring_to_text (C1 is sensitive to it): the terminating
\* NUL is taken as a character of the text.
cstring_to_text_with_nul(buf) == SubSeq(buf, 1, strlen(buf) + 1)

\* cstring_to_text: the characters of the C string held in buf.
cstring_to_text(buf) == SubSeq(buf, 1, strlen(buf))

\* buf[pos] = c, with pos counted from 0 as in C.
Store(buf, pos, c) == [buf EXCEPT ![pos + 1] = c]

\* ------------------------------------------------------------------------
\* The bucket tables
\* ------------------------------------------------------------------------

\* Faulty variant of digit_buckets (C6 is sensitive to it): the bucket of 1
\* starts with the letter q of the bucket of 0.
digit_buckets_overlap ==
    << <<"q", "W", "e", "R", "t", "Y", NUL>>,
       <<"q", "w", "E", "r", "T", "y", NUL>>,
       <<"u", "I", "o", "P", "a", NUL>>,
       <<"U", "i", "O", "p", "A", NUL>>,
       <<"s", "D", "f", "G", "h", NUL>>,
       <<"S", "d", "F", "g", "H", NUL>>,
       <<"j", "K", "l", "Z", "x", NUL>>,
       <<"J", "k", "L", "z", "X", NUL>>,
       <<"c", "V", "b", "N", "m", NUL>>,
       <<"C", "v", "B", "n", "M", NUL>> >>

\* Each bucket is a C string literal: its letters, then the terminating NUL.
digit_buckets ==
    << <<"q", "W", "e", "R", "t", "Y", NUL>>,
       <<"Q", "w", "E", "r", "T", "y", NUL>>,
       <<"u", "I", "o", "P", "a", NUL>>,
       <<"U", "i", "O", "p", "A", NUL>>,
       <<"s", "D", "f", "G", "h", NUL>>,
       <<"S", "d", "F", "g", "H", NUL>>,
       <<"j", "K", "l", "Z", "x", NUL>>,
       <<"J", "k", "L", "z", "X", NUL>>,
       <<"c", "V", "b", "N", "m", NUL>>,
       <<"C", "v", "B", "n", "M", NUL>> >>

\* Faulty variant of bucket_sizes (C10 is sensitive to it): every bucket is
\* taken to hold 6 letters.
bucket_sizes_all_six == <<6, 6, 6, 6, 6, 6, 6, 6, 6, 6>>

bucket_sizes == <<6, 6, 5, 5, 5, 5, 5, 5, 5, 5>>

\* ------------------------------------------------------------------------
\* Sizes of the local buffers, and the default length
\* ------------------------------------------------------------------------

DIGITS_SIZE == 20
SLUG_SIZE == 22
DEFAULT_LEN == 16

\* ------------------------------------------------------------------------
\* Inputs: the SQL argument, the clock, the random source
\* ------------------------------------------------------------------------

\* The argument of the call: PG_ARGISNULL(0) and PG_GETARG_INT32(0).
\* The random source yields a stream of bytes: the first is any byte, and
\* each later one is the one before plus 1 (mod 256).
NoByte == <<>>
RandomBytes(last) == IF last = NoByte THEN 0..255 ELSE {(last[1] + 1) % 256}

Args ==
    {[isnull |-> TRUE, value |-> 0]} \cup
    {[isnull |-> FALSE, value |-> v] : v \in {10, 13, 16, 19, 5, 12, 20, -1, 0}}

\* Clock readings, seconds in decimal: the epoch, a present-day time, the
\* last 10-digit second, the first 11-digit one, the two nanoseconds around
\* the point where the nanosecond count passes 2^64, a 13-digit second and
\* the largest time_t.
ClockTable ==
    << [sec |-> <<0>>, nsec |-> 0],
       [sec |-> <<1, 7, 0, 0, 0, 0, 0, 0, 0, 0>>, nsec |-> 123456789],
       [sec |-> <<9, 9, 9, 9, 9, 9, 9, 9, 9, 9>>, nsec |-> 999999999],
       [sec |-> <<1, 0, 0, 0, 0, 0, 0, 0, 0, 0, 0>>, nsec |-> 1000],
       [sec |-> <<1, 8, 4, 4, 6, 7, 4, 4, 0, 7, 3>>, nsec |-> 709551615],
       [sec |-> <<1, 8, 4, 4, 6, 7, 4, 4, 0, 7, 3>>, nsec |-> 709551616],
       [sec |-> <<9, 2, 2, 3, 3, 7, 2, 0, 3, 6, 8, 5, 4, 7, 7, 5, 8, 0, 7>>,
        nsec |-> 999999999],
       [sec |-> <<1, 0, 0, 0, 0, 0, 0, 0, 0, 0, 0, 0, 7>>, nsec |-> 5006007] >>

ClockTimes ==
    {ClockTable[k] : k \in 1..(IF MaxClock < Len(ClockTable) THEN MaxClock
                                ELSE Len(ClockTable))}

\* The reading of a call whose clock read failed: there is none.
NoReading == [sec |-> <<>>, nsec |-> 0]

\* What an unwritten struct timespec can hold: whatever the stack held (two
\* samples: all zero, and 123456789 s with 987654321 ns).
UninitTimespecs ==
    { [tv_sec |-> U64Zero, tv_nsec |-> 0],
      [tv_sec |-> <<21, 205, 91, 7, 0, 0, 0, 0>>, tv_nsec |-> 987654321] }

VARIABLES
    pc,         \* position of the call: idle, clock, convert, format, loop,
                \* done, error; ub after an access outside an array
    reading,    \* the wall-clock time that clock_gettime read, if it read one
    rng,        \* the random source: the last byte drawn, NoByte before the first
    arg,        \* the argument of the call
    len,        \* gen_unique_slug: len
    tv,         \* get_timestamp_value: struct timespec ts
    clockOk,    \* whether clock_gettime succeeded
    ts,         \* gen_unique_slug: ts
    digits,     \* timestamp_to_slug: char digits[20]
    half,       \* timestamp_to_slug: half
    i,          \* timestamp_to_slug: loop counter
    slug_pos,   \* timestamp_to_slug: slug_pos
    slug,       \* gen_unique_slug: char slug[22]
    result,     \* the text returned, <<>> while nothing is returned
    err,        \* the error raised, "none" while none is
    clockReads, \* calls of clock_gettime
    randCalls,  \* calls of pg_strong_random
    steps       \* per loop iteration: digit read, byte drawn, index written

vars == <<pc, reading, rng, arg, len, tv, clockOk, ts, digits, half, i, slug_pos,
          slug, result, err, clockReads, randCalls, steps>>

Init ==
    /\ pc = "idle"
    /\ reading = NoReading
    /\ rng = NoByte
    /\ arg = [isnull |-> TRUE, value |-> 0]
    /\ len = 0
    /\ tv = [tv_sec |-> U64Zero, tv_nsec |-> 0]
    /\ clockOk = FALSE
    /\ ts = U64Zero
    /\ digits = [k \in 1..DIGITS_SIZE |-> UNINIT]
    /\ half = 0
    /\ i = 0
    /\ slug_pos = 0
    /\ slug = [k \in 1..SLUG_SIZE |-> UNINIT]
    /\ result = <<>>
    /\ err = "none"
    /\ clockReads = 0
    /\ randCalls = 0
    /\ steps = <<>>

\* ------------------------------------------------------------------------
\* The operations
\* ------------------------------------------------------------------------

\* Faulty variant of ValidLength (C4 is sensitive to it): a range check.
ValidLength_range(n) == n >= 10 /\ n <= 19

\* The validation of gen_unique_slug: only 10, 13, 16, 19 are allowed.
ValidLength(n) == ~(n # 10 /\ n # 13 /\ n # 16 /\ n # 19)

\* gen_unique_slug, up to the validation of the length: the argument is
\* fetched (16 when it is null) and an unsupported length raises the error.
gen_unique_slug_begin ==
    /\ pc = "idle"
    /\ \E a \in Args :
        LET n == IF a.isnull THEN DEFAULT_LEN ELSE a.value
        IN  /\ arg' = a
            /\ len' = n
            /\ IF ValidLength(n)
               THEN pc' = "clock" /\ err' = err
               ELSE pc' = "error" /\ err' = "InvalidParameter"
    /\ UNCHANGED <<reading, rng, tv, clockOk, ts, digits, half, i, slug_pos, slug,
                   result, clockReads, randCalls, steps>>

\* Faulty variant of convert_timespec (C9 is sensitive to it): the
\* millisecond case divides the nanoseconds as the microsecond case does.
convert_timespec_ms_slip(precision, t) ==
    CASE precision = 10 -> t.tv_sec
      [] precision = 13 ->
            U64Add(U64Mul(t.tv_sec, U64FromInt(1000)),
                   U64FromInt(t.tv_nsec \div 1000))
      [] precision = 16 ->
            U64Add(U64Mul(t.tv_sec, U64FromInt(1000000)),
                   U64FromInt(t.tv_nsec \div 1000))
      [] precision = 19 ->
            U64Add(U64Mul(t.tv_sec, U64FromInt(1000000000)),
                   U64FromInt(t.tv_nsec))
      [] OTHER ->
            U64Add(U64Mul(t.tv_sec, U64FromInt(1000000)),
                   U64FromInt(t.tv_nsec \div 1000))

\* The switch of get_timestamp_value: the timespec as a uint64 count of the
\* unit that the precision selects.
convert_timespec(precision, t) ==
    CASE precision = 10 -> t.tv_sec
      [] precision = 13 ->
            U64Add(U64Mul(t.tv_sec, U64FromInt(1000)),
                   U64FromInt(t.tv_nsec \div 1000000))
      [] precision = 16 ->
            U64Add(U64Mul(t.tv_sec, U64FromInt(1000000)),
                   U64FromInt(t.tv_nsec \div 1000))
      [] precision = 19 ->
            U64Add(U64Mul(t.tv_sec, U64FromInt(1000000000)),
                   U64FromInt(t.tv_nsec))
      [] OTHER ->
            U64Add(U64Mul(t.tv_sec, U64FromInt(1000000)),
                   U64FromInt(t.tv_nsec \div 1000))

\* What clock_gettime leaves in the timespec: the wall-clock time when it
\* succeeds; when it fails the struct is not written, and the return value
\* is not looked at.
clock_gettime(ok, now, garbage) ==
    IF ok THEN [tv_sec |-> U64OfDecimal(now.sec), tv_nsec |-> now.nsec]
    ELSE garbage

\* get_timestamp_value(len): one clock read, then the conversion.
get_timestamp_value ==
    /\ pc = "clock"
    /\ \/ \E now \in ClockTimes :
            /\ clockOk' = TRUE
            /\ reading' = now
            /\ tv' = clock_gettime(TRUE, now, tv)
       \/ \E garbage \in UninitTimespecs :
            /\ clockOk' = FALSE
            /\ reading' = NoReading
            /\ tv' = clock_gettime(FALSE, NoReading, garbage)
    /\ clockReads' = clockReads + 1
    /\ pc' = "convert"
    /\ UNCHANGED <<rng, arg, len, ts, digits, half, i, slug_pos, slug,
                   result, err, randCalls, steps>>

get_timestamp_value_return ==
    /\ pc = "convert"
    /\ ts' = convert_timespec(len, tv)
    /\ pc' = "format"
    /\ UNCHANGED <<reading, rng, arg, len, tv, clockOk, digits, half, i, slug_pos,
                   slug, result, err, clockReads, randCalls, steps>>

\* Faulty variant of ZeroPadded (C5 is sensitive to it): the width is taken as
\* a maximum too, and the lowest-order width digits are kept.
ZeroPadded_low_order(width, value) ==
    LET ds == DecimalOf(value)
    IN  IF Len(ds) >= width THEN SubSeq(ds, Len(ds) - width + 1, Len(ds))
        ELSE [k \in 1..width |->
                 IF k <= width - Len(ds) THEN 0 ELSE ds[k - (width - Len(ds))]]

\* The digits of value, left-padded with zeros to at least width characters
\* (the conversion %0*llu: a width is a minimum, never a maximum).
ZeroPadded(width, value) ==
    LET ds == DecimalOf(value)
    IN  IF Len(ds) >= width THEN ds
        ELSE [k \in 1..width |->
                 IF k <= width - Len(ds) THEN 0 ELSE ds[k - (width - Len(ds))]]

\* snprintf(buf, size, "%0*llu", width, value): at most size - 1 characters
\* of the formatted text are stored, then a NUL; the other cells are left.
snprintf(buf, size, width, value) ==
    LET full == ZeroPadded(width, value)
        n    == IF Len(full) < size - 1 THEN Len(full) ELSE size - 1
    IN  [k \in 1..Len(buf) |->
            IF k <= n THEN DigitChars[full[k] + 1]
            ELSE IF k = n + 1 THEN NUL
            ELSE buf[k]]

\* Faulty variant of midpoint (C2 is sensitive to it): the division rounds up.
midpoint_rounded_up(n) == (n + 1) \div 2

\* Where the hyphen goes: half = len / 2.
midpoint(n) == n \div 2

\* timestamp_to_slug, up to the loop: the digits are formatted and the
\* place of the hyphen is computed.
timestamp_to_slug_begin ==
    /\ pc = "format"
    /\ digits' = snprintf(digits, DIGITS_SIZE, len, ts)
    /\ half' = midpoint(len)
    /\ slug_pos' = 0
    /\ i' = 0
    /\ pc' = "loop"
    /\ UNCHANGED <<reading, rng, arg, len, tv, clockOk, ts, slug, result, err,
                   clockReads, randCalls, steps>>

\* Faulty variant of bucket_letter (C3 is sensitive to it): every bucket is
\* indexed modulo 5.
bucket_letter_mod_five(digit, rnd) == digit_buckets[digit + 1][(rnd % 5) + 1]

\* The letter of a digit for a random byte.
bucket_letter(digit, rnd) ==
    digit_buckets[digit + 1][(rnd % bucket_sizes[digit + 1]) + 1]

\* Whether iteration i of the loop stays inside its arrays: digits[i] is a
\* cell of the buffer that holds a decimal digit, and the (at most two)
\* cells of slug it writes exist.
InBounds ==
    /\ i < DIGITS_SIZE
    /\ Ord(digits[i + 1]) - Ord("0") \in 0..9
    /\ slug_pos + 1 < SLUG_SIZE

\* Faulty variant of draw_failed (C8 is sensitive to it): the failure is
\* reported and the iteration is run again.
draw_failed_retry(slug1, pos1) ==
    /\ pc' = "loop"
    /\ err' = "pg_strong_random failed"
    /\ slug' = slug1
    /\ slug_pos' = pos1
    /\ UNCHANGED <<rng, i, steps>>

\* ereport(ERROR, "pg_strong_random failed"): the call is abandoned where it
\* stands, after the hyphen of this iteration if it had one.
draw_failed(slug1, pos1) ==
    /\ pc' = "error"
    /\ err' = "pg_strong_random failed"
    /\ slug' = slug1
    /\ slug_pos' = pos1
    /\ UNCHANGED <<rng, i, steps>>

\* One iteration of the loop of timestamp_to_slug: the hyphen at the
\* midpoint, one random byte, one letter. A failed draw raises the error.
encode_digit ==
    /\ pc = "loop"
    /\ i < len
    /\ IF ~InBounds
       THEN /\ pc' = "ub"
            /\ UNCHANGED <<rng, i, slug_pos, slug, err, randCalls, steps>>
       ELSE LET digit == Ord(digits[i + 1]) - Ord("0")
                hyph  == (i = half)
                slug1 == IF hyph THEN Store(slug, slug_pos, "-") ELSE slug
                pos1  == IF hyph THEN slug_pos + 1 ELSE slug_pos
            IN  /\ randCalls' = randCalls + 1
                /\ \/ \E rnd \in RandomBytes(rng) :
                         /\ rng' = <<rnd>>
                         /\ slug' = Store(slug1, pos1, bucket_letter(digit, rnd))
                         /\ slug_pos' = pos1 + 1
                         /\ i' = i + 1
                         /\ steps' = Append(steps, [digit |-> digit, rnd |-> rnd,
                                                    pos |-> pos1])
                         /\ pc' = pc
                         /\ err' = err
                   \/ draw_failed(slug1, pos1)
    /\ UNCHANGED <<reading, arg, len, tv, clockOk, ts, digits, half, result,
                   clockReads>>

\* The end of the loop: the slug is terminated and returned as text.
gen_unique_slug_return ==
    /\ pc = "loop"
    /\ ~(i < len)
    /\ IF ~(slug_pos < SLUG_SIZE)
       THEN pc' = "ub" /\ UNCHANGED <<slug, result>>
       ELSE /\ slug' = Store(slug, slug_pos, NUL)
            /\ result' = cstring_to_text(slug')
            /\ pc' = "done"
    /\ UNCHANGED <<reading, rng, arg, len, tv, clockOk, ts, digits, half, i,
                   slug_pos, err, clockReads, randCalls, steps>>

Next ==
    \/ gen_unique_slug_begin
    \/ get_timestamp_value
    \/ get_timestamp_value_return
    \/ timestamp_to_slug_begin
    \/ encode_digit
    \/ gen_unique_slug_return

Spec == Init /\ [][Next]_vars

\* ------------------------------------------------------------------------
\* Definitions the properties are stated with
\* ------------------------------------------------------------------------

\* The call returned a slug.
Returned == pc = "done"

\* The characters of a C string, as a set.
LettersOf(str) == {str[k] : k \in 1..strlen(str)}

BucketLetterSets ==
    <<LettersOf(digit_buckets[1]), LettersOf(digit_buckets[2]),
      LettersOf(digit_buckets[3]), LettersOf(digit_buckets[4]),
      LettersOf(digit_buckets[5]), LettersOf(digit_buckets[6]),
      LettersOf(digit_buckets[7]), LettersOf(digit_buckets[8]),
      LettersOf(digit_buckets[9]), LettersOf(digit_buckets[10])>>

\* The letters of bucket d, without the terminating NUL.
BucketLetters(d) == BucketLetterSets[d + 1]

\* No letter belongs to the buckets of two digits.
BucketsDisjoint ==
    \A d, e \in 0..9 : d # e => BucketLetters(d) \cap BucketLetters(e) = {}

\* The output index of the letter of digit position p (counted from 0) for
\* length n: the hyphen sits at index n / 2.
OutputIndex(p, n) == IF p < n \div 2 THEN p ELSE p + 1

\* The digit string the loop has encoded so far, as read by the iterations.
EncodedDigits == [k \in 1..Len(steps) |-> steps[k].digit]

\* The number of decimal digits of the timestamp value.
NaturalWidth == Len(DecimalOf(ts))

\* ------------------------------------------------------------------------
\* C1
\* ------------------------------------------------------------------------

\* C1: a successful call with length L returns a string of exactly L + 1
\* characters, whatever the timestamp value (also one whose decimal form has
\* more than L digits) and whatever the random bytes.
C1_SlugLength ==
    Returned => /\ len \in {10, 13, 16, 19}
                /\ Len(result) = len + 1

\* A slug of 20 characters was returned for length 19 from a timestamp value
\* of 20 decimal digits.
C1_Witness ==
    /\ Returned
    /\ len = 19
    /\ Len(result) = 20
    /\ NaturalWidth = 20

\* ------------------------------------------------------------------------
\* C2
\* ------------------------------------------------------------------------

\* C2: the returned slug has the hyphen at index L / 2 and nowhere else, so
\* the hyphen is neither the first nor the last character, L / 2 letters
\* precede it and L - L / 2 letters follow it.
C2_Separator ==
    Returned =>
        /\ 0 < len \div 2
        /\ len \div 2 < Len(result) - 1
        /\ \A k \in 1..Len(result) : (result[k] = "-") <=> (k = len \div 2 + 1)
        /\ Len(SubSeq(result, 1, len \div 2)) = len \div 2
        /\ Len(SubSeq(result, len \div 2 + 2, Len(result))) = len - len \div 2

\* A slug was returned for the odd length 13, where the two parts differ in
\* size: 6 letters, the hyphen, 7 letters.
C2_Witness ==
    /\ Returned
    /\ len = 13
    /\ result[7] = "-"
    /\ Len(result) = 14

\* ------------------------------------------------------------------------
\* C3
\* ------------------------------------------------------------------------

\* C3: iteration p of the loop (p from 0) reads the digit d at position p of
\* the formatted digit string, draws one random byte r, and stores at output
\* index p (p + 1 from the midpoint on) the letter at index r mod
\* bucket_size[d] of the bucket of d; that letter is a member of the bucket of
\* d, and a returned slug has cost exactly one draw per digit.
C3_BucketEncoding ==
    /\ \A k \in 1..Len(steps) :
        LET d == steps[k].digit
            r == steps[k].rnd
        IN  /\ d \in 0..9
            /\ r \in 0..255
            /\ DigitChars[d + 1] = digits[k]
            /\ steps[k].pos = OutputIndex(k - 1, len)
            /\ slug[steps[k].pos + 1] =
                   digit_buckets[d + 1][(r % bucket_sizes[d + 1]) + 1]
            /\ slug[steps[k].pos + 1] \in BucketLetters(d)
    /\ Returned => /\ Len(steps) = len
                   /\ randCalls = len
                   /\ \A k \in 1..len :
                        result[OutputIndex(k - 1, len) + 1] \in
                            BucketLetters(steps[k].digit)

\* A slug was returned whose last letter was selected by the byte 255 from a
\* bucket of 6 letters (255 mod 6 = 3), and whose first letters include one
\* from a bucket of 5 letters.
C3_Witness ==
    /\ Returned
    /\ steps[len].rnd = 255
    /\ bucket_sizes[steps[len].digit + 1] = 6
    /\ result[len + 1] = digit_buckets[steps[len].digit + 1][4]
    /\ \E k \in 1..len : bucket_sizes[steps[k].digit + 1] = 5

\* ------------------------------------------------------------------------
\* C4
\* ------------------------------------------------------------------------

\* C4: a call with a length other than 10, 13, 16, 19 ends with the
\* InvalidParameter error: nothing is returned, the clock is not read and no
\* random byte is drawn.
C4_InvalidLength ==
    (pc # "idle" /\ ~arg.isnull /\ arg.value \notin {10, 13, 16, 19}) =>
        /\ pc = "error"
        /\ err = "InvalidParameter"
        /\ result = <<>>
        /\ clockReads = 0
        /\ randCalls = 0
        /\ steps = <<>>

\* The call with length 12 ended with InvalidParameter.
C4_Witness ==
    /\ pc = "error"
    /\ err = "InvalidParameter"
    /\ ~arg.isnull
    /\ arg.value = 12

\* ------------------------------------------------------------------------
\* C5
\* ------------------------------------------------------------------------

\* C5 as stated: when the timestamp value has more than L decimal digits, the
\* digit string encoded is the lowest-order L digits of the value.
C5_LowOrderDigits ==
    (Returned /\ NaturalWidth > len) =>
        EncodedDigits = SubSeq(DecimalOf(ts), NaturalWidth - len + 1, NaturalWidth)

\* C5 as the code has it: when the timestamp value has more than L decimal
\* digits, the digit string encoded is the highest-order L digits of the value
\* (the low-order digits are the ones dropped); when it has at most L, it is
\* the value left-padded with zeros to L digits. Either way the digit string
\* is a function of the timestamp value and L alone.
C5_HighOrderDigits ==
    Returned =>
        /\ Len(EncodedDigits) = len
        /\ IF NaturalWidth > len
           THEN EncodedDigits = SubSeq(DecimalOf(ts), 1, len)
           ELSE /\ SubSeq(EncodedDigits, len - NaturalWidth + 1, len) = DecimalOf(ts)
                /\ \A k \in 1..(len - NaturalWidth) : EncodedDigits[k] = 0

\* A slug was returned for length 10 from an 11-digit count of seconds whose
\* first ten digits differ from its last ten.
C5_Witness ==
    /\ Returned
    /\ len = 10
    /\ NaturalWidth = 11
    /\ SubSeq(DecimalOf(ts), 1, 10) # SubSeq(DecimalOf(ts), 2, 11)
    /\ EncodedDigits = SubSeq(DecimalOf(ts), 1, 10)

\* ------------------------------------------------------------------------
\* C6
\* ------------------------------------------------------------------------

\* The digits whose bucket holds the letter c.
DigitsOf(c) == {d \in 0..9 : c \in BucketLetters(d)}

\* The letters of a returned slug: the slug without its hyphen.
SlugLetters == SelectSeq(result, LAMBDA c : c # "-")

\* The digit string read back from a sequence of letters.
RECURSIVE Decode(_)
Decode(letters) ==
    IF letters = <<>> THEN <<>>
    ELSE <<CHOOSE d \in 0..9 : Head(letters) \in BucketLetters(d)>>
             \o Decode(Tail(letters))

\* The digits of ds without its leading zeros (at least one digit is kept).
RECURSIVE Unpadded(_)
Unpadded(ds) ==
    IF Len(ds) > 1 /\ Head(ds) = 0 THEN Unpadded(Tail(ds)) ELSE ds

\* C6: the ten buckets are pairwise disjoint, every letter of a returned slug
\* belongs to exactly one bucket, and when the timestamp value fits in L
\* digits the L digits read back from the slug are the value: so two calls
\* with different values that fit can never return the same slug, whatever
\* the random bytes.
C6_SlugIdentifiesTimestamp ==
    (Returned /\ NaturalWidth <= len) =>
        /\ BucketsDisjoint
        /\ \A k \in 1..Len(result) :
                result[k] # "-" => Cardinality(DigitsOf(result[k])) = 1
        /\ Len(SlugLetters) = len
        /\ Unpadded(Decode(SlugLetters)) = DecimalOf(ts)

\* A slug was returned for a non-zero timestamp value that fits in L digits
\* with room to spare, so that padding zeros were encoded too.
C6_Witness ==
    /\ Returned
    /\ ts # U64Zero
    /\ NaturalWidth < len
    /\ Head(Decode(SlugLetters)) = 0
    /\ Unpadded(Decode(SlugLetters)) = DecimalOf(ts)

\* ------------------------------------------------------------------------
\* C7
\* ------------------------------------------------------------------------

\* C7: when the read of the clock fails the call ends with a fatal error: no
\* digit is encoded from the unread timestamp and no slug is returned.
C7_ClockFailureIsFatal ==
    (clockReads > 0 /\ ~clockOk) =>
        /\ steps = <<>>
        /\ ~Returned
        /\ result = <<>>

\* ------------------------------------------------------------------------
\* C8
\* ------------------------------------------------------------------------

\* C8: when the random draw fails at digit position i the call ends there
\* with the error: nothing is returned, the failed draw is the last one (no
\* retry, no other draw), and no letter is produced for position i.
C8_RandomFailureIsFatal ==
    (err = "pg_strong_random failed") =>
        /\ pc = "error"
        /\ result = <<>>
        /\ i < len
        /\ Len(steps) = i
        /\ randCalls = i + 1
        /\ slug_pos = OutputIndex(i, len)
        /\ slug[slug_pos + 1] = UNINIT

\* The draw failed at the midpoint position of a call with length 16, after
\* eight letters and the hyphen were built.
C8_Witness ==
    /\ err = "pg_strong_random failed"
    /\ pc = "error"
    /\ len = 16
    /\ i = 8
    /\ slug[9] = "-"
    /\ result = <<>>

\* ------------------------------------------------------------------------
\* C9
\* ------------------------------------------------------------------------

\* Decimal arithmetic on digit sequences (most significant digit first).
DecPad(ds, n) == [k \in 1..(n - Len(ds)) |-> 0] \o ds

\* a >= b, for digit sequences without leading zeros.
DecGeq(a, b) ==
    \/ Len(a) > Len(b)
    \/ /\ Len(a) = Len(b)
       /\ \/ a = b
          \/ \E k \in 1..Len(a) :
                /\ a[k] > b[k]
                /\ \A j \in 1..(k - 1) : a[j] = b[j]

RECURSIVE SubDigits(_, _, _, _)
SubDigits(a, b, k, borrow) ==
    IF k = 0 THEN <<>>
    ELSE LET d == a[k] - b[k] - borrow
         IN  SubDigits(a, b, k - 1, IF d < 0 THEN 1 ELSE 0)
                 \o <<IF d < 0 THEN d + 10 ELSE d>>

\* a - b, for a >= b.
DecSub(a, b) == Unpadded(SubDigits(a, DecPad(b, Len(a)), Len(a), 0))

TwoTo64 == <<1, 8, 4, 4, 6, 7, 4, 4, 0, 7, 3, 7, 0, 9, 5, 5, 1, 6, 1, 6>>

RECURSIVE MulDigits(_, _, _, _)
MulDigits(a, q, k, carry) ==
    IF k = 0 THEN (IF carry = 0 THEN <<>> ELSE <<carry>>)
    ELSE LET p == a[k] * q + carry
         IN  MulDigits(a, q, k - 1, p \div 10) \o <<p % 10>>

\* q * 2^64 * 10^k, for a digit q.
Multiple(q, k) ==
    IF q = 0 THEN <<0>>
    ELSE MulDigits(TwoTo64, q, Len(TwoTo64), 0) \o [j \in 1..k |-> 0]

\* x modulo 2^64, by long division: for k, k - 1, ..., 0 the largest multiple
\* q * 2^64 * 10^k (q a digit) that fits is taken off.
RECURSIVE DecReduce(_, _)
DecReduce(x, k) ==
    IF k < 0 THEN x
    ELSE LET q == CHOOSE d \in 0..9 :
                      /\ DecGeq(x, Multiple(d, k))
                      /\ d < 9 => ~DecGeq(x, Multiple(d + 1, k))
         IN  CHOOSE r \in {DecReduce(y, k - 1) : y \in {DecSub(x, Multiple(q, k))}} :
                 TRUE

\* The digits of n, left-padded with zeros to width digits.
DecOfInt(n, width) == [k \in 1..width |-> (n \div 10^(width - k)) % 10]

\* The number of sub-second decimal digits of the unit of a length argument.
UnitDigits(a) ==
    IF a.isnull THEN 6
    ELSE CASE a.value = 10 -> 0
           [] a.value = 13 -> 3
           [] a.value = 16 -> 6
           [] a.value = 19 -> 9

\* secs * 10^u + nanos / 10^(9 - u), modulo 2^64, in decimal: as
\* nanos / 10^(9 - u) < 10^u, the sum is the digits of secs followed by the
\* u digits of nanos / 10^(9 - u).
ExpectedTimestamp(r, u) ==
    DecReduce(Unpadded(r.sec \o DecOfInt(r.nsec \div 10^(9 - u), u)), 9)

\* C9: the timestamp value is the clock reading in the unit selected by the
\* length (seconds, milli-, micro-, nanoseconds for 10, 13, 16, 19) in 64-bit
\* unsigned arithmetic; a null length acts as 16; a returned slug has cost
\* exactly one clock read.
C9_TimestampValue ==
    /\ (pc \in {"clock", "convert", "format"} /\ arg.isnull) => len = 16
    /\ (pc = "format" /\ clockOk) =>
            /\ DecimalOf(tv.tv_sec) = reading.sec
            /\ tv.tv_nsec = reading.nsec
            /\ DecimalOf(ts) = ExpectedTimestamp(reading, UnitDigits(arg))
    /\ Returned => clockReads = 1

\* A call with a null length read the clock once, at 1700000000.123456789 s,
\* converted the reading to 1700000000123456 microseconds and returned.
C9_Witness ==
    /\ Returned
    /\ arg.isnull
    /\ clockOk
    /\ clockReads = 1
    /\ reading.sec = <<1, 7, 0, 0, 0, 0, 0, 0, 0, 0>>
    /\ reading.nsec = 123456789
    /\ DecimalOf(ts) = <<1, 7, 0, 0, 0, 0, 0, 0, 0, 0, 1, 2, 3, 4, 5, 6>>

\* ------------------------------------------------------------------------
\* C10
\* ------------------------------------------------------------------------

\* C10: every array access of timestamp_to_slug is in bounds: the formatted
\* digit buffer holds at least L digit characters and its NUL within its 20
\* cells, each digit read indexes the tables within 0..9, each letter index is
\* below the length of its bucket, and the write position into the 22-cell
\* slug never passes L + 1, the place of the NUL.
C10_InBounds ==
    /\ pc # "ub"
    /\ pc \in {"loop", "done"} =>
            /\ len <= strlen(digits)
            /\ strlen(digits) < DIGITS_SIZE
            /\ \A k \in 1..len : Ord(digits[k]) - Ord("0") \in 0..9
            /\ i <= len
            /\ slug_pos <= len + 1
            /\ len + 1 < SLUG_SIZE
    /\ \A k \in 1..Len(steps) :
            /\ steps[k].digit + 1 \in DOMAIN digit_buckets
            /\ steps[k].digit + 1 \in DOMAIN bucket_sizes
            /\ steps[k].rnd % bucket_sizes[steps[k].digit + 1]
                   < strlen(digit_buckets[steps[k].digit + 1])
            /\ steps[k].pos < SLUG_SIZE
    /\ Returned => /\ slug_pos = len + 1
                   /\ slug[slug_pos + 1] = NUL

\* A slug was returned for length 19 from the largest 64-bit value, whose 20
\* digits do not fit the digit buffer: the buffer is full and the slug's NUL
\* sits at index 20.
C10_Witness ==
    /\ Returned
    /\ len = 19
    /\ ts = <<255, 255, 255, 255, 255, 255, 255, 255>>
    /\ strlen(digits) = DIGITS_SIZE - 1
    /\ slug_pos = 20
====
